---- MODULE Spec2Model ----
(***************************************************************************)
(* Splay trees over zippers (src/src/main.rs): the generic zipper and      *)
(* splay machinery, the ordered set SplayTree<A> over TreeNode<A>, and the *)
(* reversible bit sequence BitRange over BitRangeNode (subtree sizes and   *)
(* lazy reversed flags).                                                   *)
(*                                                                         *)
(* The generic functions of the source are written once and instantiated   *)
(* through the traits TreeAlgebra / TreeCoalgebra; here the instance is    *)
(* the parameter ty ("plain" for TreeNode, "bit" for BitRangeNode).        *)
(***************************************************************************)
EXTENDS Integers, Sequences, FiniteSets, TLC

(* ------------------------------ bounds --------------------------------- *)
\* largest length given to BitRange::new
MaxN == 4
\* keys of the ordered set are 1 .. MaxKey
MaxKey == 4

Lengths == 0 .. MaxN
\* indices handed to get / set / reverse_range: every valid position, one
\* below them and (for the longest sequence) one above
Indices == (0 - 1) .. MaxN
Keys == 1 .. MaxKey
Bit == {FALSE, TRUE}

(* --------------------------- TreeF and nodes --------------------------- *)
\* TreeF::Empty; TreeNode(TreeF::Empty) and BitRangeNode::Empty are
\* represented by the same value
Empty == [k |-> "E"]

\* TreeF::Branch { val, left, right }
Branch(val, left, right) ==
    [k |-> "B", val |-> val, left |-> left, right |-> right]

\* BitRangeNode::Branch { here, size, reversed, left, right }
BitBranch(here, size, reversed, left, right) ==
    [k |-> "B", here |-> here, size |-> size, reversed |-> reversed,
     left |-> left, right |-> right]

\* Option<bool>
None == <<>>
Some(b) == <<b>>

get_size(n) == IF n.k = "E" THEN 0 ELSE n.size

\* a reversed that sets the flag instead of toggling it
reversed_sticky(input) ==
    IF input.k = "E" THEN Empty
    ELSE BitBranch(input.here, input.size, TRUE, input.left, input.right)

\* Reversible::reversed for BitRangeNode: toggles the flag at the top only
reversed(input) ==
    IF input.k = "E" THEN Empty
    ELSE BitBranch(input.here, input.size, ~input.reversed,
                   input.left, input.right)

\* a combine that forgets the +1 for the node itself
combine_size_off(ty, input) ==
    IF input.k = "E" THEN Empty
    ELSE IF ty = "plain" THEN Branch(input.val, input.left, input.right)
    ELSE BitBranch(input.val,
                   get_size(input.left) + get_size(input.right),
                   FALSE, input.left, input.right)

\* TreeAlgebra::combine
combine(ty, input) ==
    IF input.k = "E" THEN Empty
    ELSE IF ty = "plain" THEN Branch(input.val, input.left, input.right)
    ELSE BitBranch(input.val,
                   get_size(input.left) + get_size(input.right) + 1,
                   FALSE, input.left, input.right)

\* a separate that swaps the children of a reversed node without passing
\* the flag down to them
separate_no_push(ty, input) ==
    IF input.k = "E" THEN Empty
    ELSE IF ty = "plain" THEN Branch(input.val, input.left, input.right)
    ELSE IF input.reversed
         THEN Branch(input.here, input.right, input.left)
         ELSE Branch(input.here, input.left, input.right)

\* TreeCoalgebra::separate
separate(ty, input) ==
    IF input.k = "E" THEN Empty
    ELSE IF ty = "plain" THEN Branch(input.val, input.left, input.right)
    ELSE IF input.reversed
         THEN Branch(input.here, reversed(input.right), reversed(input.left))
         ELSE Branch(input.here, input.left, input.right)

\* TreeCoalgebra::is_branch
is_branch(input) == input.k = "B"

(* ------------------------------- zipper -------------------------------- *)
\* TreeZipperStep { direction, parent_val, sibling }
Step(direction, parent_val, sibling) ==
    [direction |-> direction, parent_val |-> parent_val, sibling |-> sibling]

\* TreeZipper { path, here }
Zipper(path, here) == [path |-> path, here |-> here]

\* Vec::pop: the popped step and what is left of the path
Last(path) == path[Len(path)]
Front(path) == SubSeq(path, 1, Len(path) - 1)

\* Ordering of a.cmp(b)
Cmp(a, b) == IF a < b THEN "Less" ELSE IF a = b THEN "Equal" ELSE "Greater"

RECURSIVE find_loop(_, _, _, _)
find_loop(ty, node, path, v) ==
    LET f == separate(ty, node) IN
    IF f.k = "E" THEN Zipper(path, combine(ty, Empty))
    ELSE CASE Cmp(v, f.val) = "Less" ->
                find_loop(ty, f.left,
                          Append(path, Step("Left", f.val, f.right)), v)
           [] Cmp(v, f.val) = "Equal" ->
                Zipper(path, combine(ty, Branch(f.val, f.left, f.right)))
           [] Cmp(v, f.val) = "Greater" ->
                find_loop(ty, f.right,
                          Append(path, Step("Right", f.val, f.left)), v)

find(ty, root, v) == find_loop(ty, root, <<>>, v)

\* one iteration of the loop of zip_tree
zip_step(ty, step, node) ==
    IF step.direction = "Left"
    THEN combine(ty, Branch(step.parent_val, node, step.sibling))
    ELSE combine(ty, Branch(step.parent_val, step.sibling, node))

RECURSIVE zip_loop(_, _, _)
zip_loop(ty, path, node) ==
    IF path = <<>> THEN node
    ELSE zip_loop(ty, Front(path), zip_step(ty, Last(path), node))

zip_tree(ty, zipper) == zip_loop(ty, zipper.path, zipper.here)

root_zipper(root) == Zipper(<<>>, root)

\* a parent_zipper that hangs the focus on the other side of its parent
parent_zipper_other_side(ty, zipper) ==
    IF zipper.path = <<>> THEN Zipper(zipper.path, zipper.here)
    ELSE LET s == Last(zipper.path) IN
         IF s.direction = "Left"
         THEN Zipper(Front(zipper.path),
                     combine(ty, Branch(s.parent_val, s.sibling, zipper.here)))
         ELSE Zipper(Front(zipper.path),
                     combine(ty, Branch(s.parent_val, zipper.here, s.sibling)))

parent_zipper(ty, zipper) ==
    IF zipper.path = <<>> THEN Zipper(zipper.path, zipper.here)
    ELSE LET s == Last(zipper.path) IN
         IF s.direction = "Left"
         THEN Zipper(Front(zipper.path),
                     combine(ty, Branch(s.parent_val, zipper.here, s.sibling)))
         ELSE Zipper(Front(zipper.path),
                     combine(ty, Branch(s.parent_val, s.sibling, zipper.here)))

left_zipper(ty, zipper) ==
    LET f == separate(ty, zipper.here) IN
    IF f.k = "E" THEN Zipper(zipper.path, combine(ty, Empty))
    ELSE Zipper(Append(zipper.path, Step("Left", f.val, f.right)), f.left)

right_zipper(ty, zipper) ==
    LET f == separate(ty, zipper.here) IN
    IF f.k = "E" THEN Zipper(zipper.path, combine(ty, Empty))
    ELSE Zipper(Append(zipper.path, Step("Right", f.val, f.left)), f.right)

\* a rotate_zipper that takes every step for a Left step
rotate_zipper_left_only(ty, zipper) ==
    LET f == separate(ty, zipper.here) IN
    IF f.k = "E" THEN Zipper(zipper.path, combine(ty, Empty))
    ELSE IF zipper.path # <<>>
         THEN LET s == Last(zipper.path) IN
              Zipper(Front(zipper.path),
                     combine(ty, Branch(f.val, f.left,
                        combine(ty, Branch(s.parent_val, f.right, s.sibling)))))
         ELSE Zipper(zipper.path, combine(ty, Branch(f.val, f.left, f.right)))

rotate_zipper(ty, zipper) ==
    LET f == separate(ty, zipper.here) IN
    IF f.k = "E" THEN Zipper(zipper.path, combine(ty, Empty))
    ELSE IF zipper.path # <<>>
         THEN LET s == Last(zipper.path) IN
              IF s.direction = "Left"
              THEN Zipper(Front(zipper.path),
                     combine(ty, Branch(f.val, f.left,
                        combine(ty, Branch(s.parent_val, f.right, s.sibling)))))
              ELSE Zipper(Front(zipper.path),
                     combine(ty, Branch(f.val,
                        combine(ty, Branch(s.parent_val, s.sibling, f.left)),
                        f.right)))
         ELSE Zipper(zipper.path, combine(ty, Branch(f.val, f.left, f.right)))

(* -------------------------------- splay -------------------------------- *)
\* a zig that hands the focus's right subtree and the sibling to the wrong
\* sides of the old parent
zig_misplaced(ty, f, s) ==
    IF s.direction = "Left"
    THEN combine(ty, Branch(f.val, f.left,
            combine(ty, Branch(s.parent_val, s.sibling, f.right))))
    ELSE combine(ty, Branch(f.val,
            combine(ty, Branch(s.parent_val, f.left, s.sibling)),
            f.right))

\* zig: the focus has a parent and no grandparent
zig(ty, f, s) ==
    IF s.direction = "Left"
    THEN combine(ty, Branch(f.val, f.left,
            combine(ty, Branch(s.parent_val, f.right, s.sibling))))
    ELSE combine(ty, Branch(f.val,
            combine(ty, Branch(s.parent_val, s.sibling, f.left)),
            f.right))

\* a double rotation that takes every case for the Left/Left zig-zig
zigzig_zigzag_left_only(ty, f, s, g) ==
    combine(ty, Branch(f.val, f.left,
        combine(ty, Branch(s.parent_val, f.right,
            combine(ty, Branch(g.parent_val, s.sibling, g.sibling))))))

\* zig-zig and zig-zag: s is the step to the parent, g the step to the
\* grandparent (parent_dir, grandparent_val, uncle)
zigzig_zigzag(ty, f, s, g) ==
    CASE s.direction = "Left" /\ g.direction = "Left" ->
            combine(ty, Branch(f.val, f.left,
                combine(ty, Branch(s.parent_val, f.right,
                    combine(ty, Branch(g.parent_val, s.sibling, g.sibling))))))
      [] s.direction = "Left" /\ g.direction = "Right" ->
            combine(ty, Branch(f.val,
                combine(ty, Branch(g.parent_val, g.sibling, f.left)),
                combine(ty, Branch(s.parent_val, f.right, s.sibling))))
      [] s.direction = "Right" /\ g.direction = "Left" ->
            combine(ty, Branch(f.val,
                combine(ty, Branch(s.parent_val, s.sibling, f.left)),
                combine(ty, Branch(g.parent_val, f.right, g.sibling))))
      [] s.direction = "Right" /\ g.direction = "Right" ->
            combine(ty, Branch(f.val,
                combine(ty, Branch(s.parent_val,
                    combine(ty, Branch(g.parent_val, g.sibling, s.sibling)),
                    f.left)),
                f.right))

splay_step(ty, zipper) ==
    LET f == separate(ty, zipper.here) IN
    IF f.k = "E" THEN Zipper(zipper.path, combine(ty, Empty))
    ELSE IF zipper.path = <<>>
         THEN Zipper(zipper.path, combine(ty, Branch(f.val, f.left, f.right)))
         ELSE LET s == Last(zipper.path)
                  path1 == Front(zipper.path)
              IN IF path1 = <<>>
                 THEN Zipper(path1, zig(ty, f, s))
                 ELSE Zipper(Front(path1),
                             zigzig_zigzag(ty, f, s, Last(path1)))

RECURSIVE splay_loop(_, _)
splay_loop(ty, zipper) ==
    IF zipper.path = <<>> THEN zipper
    ELSE splay_loop(ty, splay_step(ty, zipper))

\* a splay that stops after one step
splay_once(ty, zipper) ==
    IF zipper.path = <<>> THEN zipper
    ELSE splay_step(ty, IF ~is_branch(zipper.here)
                        THEN parent_zipper(ty, zipper)
                        ELSE zipper)

splay(ty, zipper) ==
    IF zipper.path = <<>> THEN zipper
    ELSE splay_loop(ty, IF ~is_branch(zipper.here)
                        THEN parent_zipper(ty, zipper)
                        ELSE zipper)

(* --------------------------- SplayTree<A> ------------------------------ *)
\* Splay::new
SplayTree_new == Empty

\* an insert that overwrites the focus whether or not it is Empty
SplayTree_insert_overwrite(root, v) ==
    LET ins_loc == find("plain", root, v)
        filled == Zipper(ins_loc.path, Branch(v, Empty, Empty))
    IN zip_tree("plain", splay("plain", filled))

\* Splay::insert: the new root
SplayTree_insert(root, v) ==
    LET ins_loc == find("plain", root, v)
        filled == IF ins_loc.here.k = "E"
                  THEN Zipper(ins_loc.path, Branch(v, Empty, Empty))
                  ELSE ins_loc
    IN zip_tree("plain", splay("plain", filled))

\* Splay::contains: the new root and the returned bool
SplayTree_contains(root, v) ==
    LET find_loc == find("plain", root, v) IN
    [root |-> zip_tree("plain", splay("plain", find_loc)),
     result |-> (find_loc.here.k = "B")]

\* Splay::splay_to_root: the new root
SplayTree_splay_to_root(root, v) ==
    zip_tree("plain", splay("plain", find("plain", root, v)))

(* ----------------------------- BitRange -------------------------------- *)
RECURSIVE end_loop(_, _, _)
end_loop(ty, node, path) ==
    LET f == separate(ty, node) IN
    IF f.k = "E" THEN Zipper(path, combine(ty, Empty))
    ELSE end_loop(ty, f.right, Append(path, Step("Right", f.val, f.left)))

end(ty, root) == end_loop(ty, root, <<>>)

RECURSIVE find_index_loop(_, _, _)
find_index_loop(node, remaining, path) ==
    LET f == separate("bit", node) IN
    IF f.k = "E" THEN Zipper(path, combine("bit", Empty))
    ELSE LET left_size == get_size(f.left) IN
         CASE Cmp(left_size, remaining) = "Less" ->
                find_index_loop(f.right, remaining - left_size - 1,
                                Append(path, Step("Right", f.val, f.left)))
           [] Cmp(left_size, remaining) = "Equal" ->
                Zipper(path, combine("bit", Branch(f.val, f.left, f.right)))
           [] Cmp(left_size, remaining) = "Greater" ->
                find_index_loop(f.left, remaining,
                                Append(path, Step("Left", f.val, f.right)))

\* a find_index that counts positions from 1
find_index_from_one(root, index) == find_index_loop(root, index - 1, <<>>)

find_index(root, index) == find_index_loop(root, index, <<>>)

\* an inner arm without the fallback for an Empty right child
isolate_inner_no_fallback(root, index_start, index_end) ==
    LET r1 == zip_tree("bit", splay("bit", find_index(root, index_start)))
        r2 == zip_tree("bit", splay("bit", find_index(r1, index_start - 1)))
        r3 == zip_tree("bit", splay("bit", find_index(r2, index_end)))
    IN right_zipper("bit", find_index(r3, index_start - 1))

\* the last arm of isolate_interval: 0 < index_start, index_end < size
isolate_inner(root, index_start, index_end) ==
    LET r1 == zip_tree("bit", splay("bit", find_index(root, index_start)))
        r2 == zip_tree("bit", splay("bit", find_index(r1, index_start - 1)))
        r3 == zip_tree("bit", splay("bit", find_index(r2, index_end)))
        zipper == right_zipper("bit", find_index(r3, index_start - 1))
    IN IF is_branch(zipper.here) THEN zipper
       ELSE right_zipper("bit",
                rotate_zipper("bit", parent_zipper("bit", zipper)))

\* an isolate_interval that compares index_end with > instead of >=
isolate_interval_end_strict(root, index_start, index_end) ==
    IF index_start <= 0
    THEN IF index_end > get_size(root)
         THEN root_zipper(root)
         ELSE left_zipper("bit", splay("bit", find_index(root, index_end)))
    ELSE IF index_end > get_size(root)
         THEN right_zipper("bit",
                  splay("bit", find_index(root, index_start - 1)))
         ELSE isolate_inner(root, index_start, index_end)

\* an isolate_interval that compares index_start with < instead of <=
isolate_interval_start_strict(root, index_start, index_end) ==
    IF index_start < 0
    THEN IF index_end >= get_size(root)
         THEN root_zipper(root)
         ELSE left_zipper("bit", splay("bit", find_index(root, index_end)))
    ELSE IF index_end >= get_size(root)
         THEN right_zipper("bit",
                  splay("bit", find_index(root, index_start - 1)))
         ELSE isolate_inner(root, index_start, index_end)

isolate_interval(root, index_start, index_end) ==
    IF index_start <= 0
    THEN IF index_end >= get_size(root)
         THEN root_zipper(root)
         ELSE left_zipper("bit", splay("bit", find_index(root, index_end)))
    ELSE IF index_end >= get_size(root)
         THEN right_zipper("bit",
                  splay("bit", find_index(root, index_start - 1)))
         ELSE isolate_inner(root, index_start, index_end)

RECURSIVE new_loop(_, _)
new_loop(root, n) ==
    IF n <= 0 THEN root
    ELSE LET zipper == end("bit", root)
             filled == Zipper(zipper.path,
                              combine("bit", Branch(FALSE, Empty, Empty)))
         IN new_loop(zip_tree("bit", splay("bit", filled)), n - 1)

\* a new that appends one node too few
BitRange_new_short(n) == new_loop(Empty, n - 1)

\* BitRange::new: the root
BitRange_new(n) == new_loop(Empty, n)

\* a set that splays the zipper it found, not the one it wrote into
BitRange_set_lost(root, index, val) ==
    zip_tree("bit", splay("bit", find_index(root, index)))

\* a set that fills an Empty focus the way SplayTree::insert does
BitRange_set_fill(root, index, val) ==
    LET zipper == find_index(root, index)
        h == zipper.here
        here2 == IF h.k = "E"
                 THEN BitBranch(val, 1, FALSE, Empty, Empty)
                 ELSE BitBranch(val, h.size, h.reversed, h.left, h.right)
    IN zip_tree("bit", splay("bit", Zipper(zipper.path, here2)))

\* BitRange::set: the new root
BitRange_set(root, index, val) ==
    LET zipper == find_index(root, index)
        h == zipper.here
        here2 == IF h.k = "E" THEN Empty
                 ELSE BitBranch(val, h.size, h.reversed, h.left, h.right)
    IN zip_tree("bit", splay("bit", Zipper(zipper.path, here2)))

\* BitRange::get: the new root and the returned Option<bool>
BitRange_get(root, index) ==
    LET zipper == find_index(root, index) IN
    [root |-> zip_tree("bit", splay("bit", zipper)),
     result |-> IF zipper.here.k = "E" THEN None ELSE Some(zipper.here.here)]

\* BitRange::reverse_range: the new root
BitRange_reverse_range(root, index_start, index_end) ==
    LET zipper == isolate_interval(root, index_start, index_end) IN
    zip_tree("bit", Zipper(zipper.path, reversed(zipper.here)))

(* ------------------------- reading a container ------------------------- *)
\* what a caller reads: the results of get(0), get(1), ..., get(size - 1),
\* each applied to the same root
Bits(r) == [p \in 1 .. get_size(r) |-> BitRange_get(r, p - 1).result]

\* what reading a sequence s of bits gives when every get succeeds
Somes(s) == [p \in 1 .. Len(s) |-> Some(s[p])]

\* some Branch of the tree has its reversed flag set
RECURSIVE AnyReversed(_)
AnyReversed(n) ==
    n.k = "B" /\ (n.reversed \/ AnyReversed(n.left) \/ AnyReversed(n.right))

\* the in-order traversal with every pending reversal applied
RECURSIVE InOrder(_, _)
InOrder(n, flip) ==
    IF n.k = "E" THEN <<>>
    ELSE LET fl == (flip # n.reversed) IN
         IF fl THEN InOrder(n.right, fl) \o <<n.here>> \o InOrder(n.left, fl)
         ELSE InOrder(n.left, fl) \o <<n.here>> \o InOrder(n.right, fl)

\* the keys stored in a TreeNode, in order, with repetitions
RECURSIVE KeySeq(_)
KeySeq(n) ==
    IF n.k = "E" THEN <<>>
    ELSE KeySeq(n.left) \o <<n.val>> \o KeySeq(n.right)

KeySet(n) == {KeySeq(n)[p] : p \in 1 .. Len(KeySeq(n))}

\* s with positions lo..hi (0-based, inclusive) reversed
ReverseSlice(s, lo, hi) ==
    [p \in 1 .. Len(s) |->
        IF lo <= p - 1 /\ p - 1 <= hi THEN s[lo + hi - (p - 1) + 1] ELSE s[p]]

(* ---------------------------- state machine ---------------------------- *)
\* root:     BitRange.root
\* set_root: SplayTree.root
\* inserted: the keys handed to insert so far
\* last:     the call of the current iteration of the caller's loop: its name
\*           and arguments (i, j, b), the content of the container before
\*           it (before: the logical bit sequence, or the keys in order),
\*           what it returned (res), and for reverse_range the zipper that
\*           isolate_interval returned (focus: the length of its path and
\*           the size of its focus; isolated: the tree it zips up to with
\*           no flag toggled, as its size and its logical bit sequence).
\*           NoCall between two iterations.
VARIABLES root, set_root, inserted, last

vars == <<root, set_root, inserted, last>>

Call(op, i, j, b, before, res, focus, isolated) ==
    [op |-> op, i |-> i, j |-> j, b |-> b, before |-> before, res |-> res,
     focus |-> focus, isolated |-> isolated]

NoCall == Call("none", 0, 0, FALSE, <<>>, None, <<>>, <<>>)

\* the caller is between two calls
Ready == last.op \in {"new", "none"}

\* main: BitRange::new(n); and a SplayTree::new()
Init ==
    \E n \in Lengths :
        /\ root = BitRange_new(n)
        /\ set_root = SplayTree_new
        /\ inserted = {}
        /\ last = Call("new", n, 0, FALSE, <<>>, None, <<>>, <<>>)

Get(i) ==
    LET r == BitRange_get(root, i) IN
    /\ Ready
    /\ root' = r.root
    /\ last' = Call("get", i, 0, FALSE, InOrder(root, FALSE), r.result, <<>>,
                    <<>>)
    /\ UNCHANGED <<set_root, inserted>>

Set(i, b) ==
    /\ Ready
    /\ root' = BitRange_set(root, i, b)
    /\ last' = Call("set", i, 0, b, InOrder(root, FALSE), None, <<>>, <<>>)
    /\ UNCHANGED <<set_root, inserted>>

\* what zip_tree gives for the zipper of isolate_interval
Isolated(t) == <<get_size(t), InOrder(t, FALSE)>>

\* the body of reverse_range, with the zipper of isolate_interval recorded
ReverseRange(i, j) ==
    /\ Ready
    /\ \E zipper \in {isolate_interval(root, i, j)} :
        /\ root' = zip_tree("bit", Zipper(zipper.path, reversed(zipper.here)))
        /\ last' = Call("reverse_range", i, j, FALSE, InOrder(root, FALSE),
                        None, <<Len(zipper.path), get_size(zipper.here)>>,
                        Isolated(zip_tree("bit", zipper)))
    /\ UNCHANGED <<set_root, inserted>>

Insert(v) ==
    /\ Ready
    /\ set_root' = SplayTree_insert(set_root, v)
    /\ inserted' = inserted \cup {v}
    /\ last' = Call("insert", v, 0, FALSE, KeySeq(set_root), None, <<>>,
                    <<>>)
    /\ UNCHANGED root

Contains(v) ==
    LET r == SplayTree_contains(set_root, v) IN
    /\ Ready
    /\ set_root' = r.root
    /\ last' = Call("contains", v, 0, FALSE, KeySeq(set_root), Some(r.result),
                    <<>>, <<>>)
    /\ UNCHANGED <<root, inserted>>

SplayToRoot(v) ==
    /\ Ready
    /\ set_root' = SplayTree_splay_to_root(set_root, v)
    /\ last' = Call("splay_to_root", v, 0, FALSE, KeySeq(set_root), None,
                    <<>>, <<>>)
    /\ UNCHANGED <<root, inserted>>

\* the end of one iteration of the caller's loop: the arguments and the
\* result of the call go out of scope, the containers stay
EndIteration ==
    /\ ~Ready
    /\ last' = NoCall
    /\ UNCHANGED <<root, set_root, inserted>>

\* main's loop over the S / G / R lines
Next ==
    \/ \E i \in Indices : Get(i)
    \/ \E i \in Indices, b \in Bit : Set(i, b)
    \/ \E i \in Indices, j \in Indices : ReverseRange(i, j)
    \/ EndIteration

Spec == Init /\ [][Next]_vars

\* a client of the ordered set
NextSet ==
    \/ \E v \in Keys : Insert(v)
    \/ \E v \in Keys : Contains(v)
    \/ \E v \in Keys : SplayToRoot(v)
    \/ EndIteration

SpecSet == Init /\ [][NextSet]_vars

\* a client of either container. The two containers share no state: a
\* call on one leaves the other unchanged, so a run that uses one of them
\* reaches every tree of it that a run using both reaches.
NextSplay ==
    \/ \E i \in Indices : set_root = SplayTree_new /\ Get(i)
    \/ \E i \in Indices, b \in Bit : set_root = SplayTree_new /\ Set(i, b)
    \/ \E i \in Indices, j \in Indices :
          set_root = SplayTree_new /\ ReverseRange(i, j)
    \/ \E v \in Keys : root = BitRange_new(0) /\ Insert(v)
    \/ \E v \in Keys : root = BitRange_new(0) /\ Contains(v)
    \/ \E v \in Keys : root = BitRange_new(0) /\ SplayToRoot(v)
    \/ EndIteration

SpecSplay == Init /\ [][NextSplay]_vars

(* ------------------------------- claims -------------------------------- *)
Size == get_size(root)
Max(a, b) == IF a > b THEN a ELSE b
Min(a, b) == IF a < b THEN a ELSE b
NumTrue(s) == Cardinality({p \in 1 .. Len(s) : s[p] = Some(TRUE)})
Mixed(s) == \E p, q \in 1 .. Len(s) : s[p] # s[q]
IsReverse == last.op = "reverse_range"
\* the precondition of reverse_range as the interface states it, inclusive
ValidInclusive == 0 <= last.i /\ last.i <= last.j /\ last.j < Size

C3_DoubleReverse ==
    (IsReverse /\ ValidInclusive) =>
        /\ Size = Len(last.before)
        /\ Bits(BitRange_reverse_range(root, last.i, last.j))
              = Somes(last.before)

\* the first of the two calls changed what the sequence reads as and left
\* a pending reversal in the tree
C3_Witness ==
    /\ IsReverse /\ ValidInclusive /\ 0 < last.i
    /\ Bits(root) # Somes(last.before)
    /\ AnyReversed(root)

\* C4: after set(i, b) with 0 <= i < size, get(i) returns Some(b).
C4_SetThenGet ==
    (last.op = "set" /\ 0 <= last.i /\ last.i < Size) =>
        BitRange_get(root, last.i).result = Some(last.b)

\* set changed a bit of a tree that still carries a pending reversal
C4_Witness ==
    /\ last.op = "set" /\ 0 <= last.i /\ last.i < Size
    /\ Size = Len(last.before)
    /\ last.before[last.i + 1] # last.b
    /\ AnyReversed(root)

\* C5: get(i) returns None exactly when i < 0 or i >= size, and otherwise
\* Some of the bit at position i of the in-order traversal with the
\* pending reversals applied.
C5_GetResult ==
    last.op = "get" =>
        IF 0 <= last.i /\ last.i < Len(last.before)
        THEN last.res = Some(last.before[last.i + 1])
        ELSE last.res = None

\* get read a TRUE bit, not the first one, from a sequence that also holds
\* a FALSE bit, in a tree that carries a pending reversal
C5_Witness ==
    /\ last.op = "get" /\ 0 < last.i /\ last.res = Some(TRUE)
    /\ Mixed(last.before)
    /\ AnyReversed(root)

\* C6: get(i), in range or not, leaves the length and what every position
\* reads as unchanged.
C6_GetKeepsContent ==
    last.op = "get" =>
        /\ Size = Len(last.before)
        /\ Bits(root) = Somes(last.before)

\* get splayed a position that was not at the root to the root
C6_Witness ==
    /\ last.op = "get" /\ 0 < last.i /\ last.i < Size - 1
    /\ Mixed(last.before)
    /\ get_size(root.left) = last.i

\* C7: set(i, b) leaves the length and every position other than i
\* unchanged; with i out of range it leaves the whole sequence unchanged.
C7_SetFrame ==
    last.op = "set" =>
        /\ Size = Len(last.before)
        /\ \A k \in 0 .. Size - 1 :
              k # last.i => Bits(root)[k + 1] = Some(last.before[k + 1])

\* set was called with an index out of range on a sequence of both bits
C7_Witness ==
    /\ last.op = "set" /\ (last.i < 0 \/ last.i >= Size)
    /\ Mixed(last.before)

\* C8 as stated: reverse_range(i, j) with indices that violate
\* 0 <= i <= j < size leaves the sequence and the length unchanged.
C8_InvalidIsNoOp ==
    (IsReverse /\ ~ValidInclusive) =>
        /\ Size = Len(last.before)
        /\ Bits(root) = Somes(last.before)

\* C8 amended: reverse_range(i, j) with indices that violate
\* 0 <= i <= j < size leaves the length and the number of 1 bits unchanged;
\* with i < j it reverses positions max(i, 0) .. min(j, size) - 1, so an i
\* below 0 acts as 0 and a j from size on acts as size.
C8_InvalidIsClamped ==
    (IsReverse /\ ~ValidInclusive) =>
        /\ Size = Len(last.before)
        /\ NumTrue(Bits(root)) = NumTrue(Somes(last.before))
        /\ last.i < last.j =>
              Bits(root) = Somes(ReverseSlice(last.before, Max(last.i, 0),
                                              Min(last.j, Size) - 1))

\* reverse_range was called with i below 0 and j beyond the last position
\* and the sequence reads differently
C8_Witness ==
    /\ IsReverse /\ last.i < 0 /\ last.j >= Size
    /\ Bits(root) # Somes(last.before)

\* C9: BitRange::new(n) has size n, get(i) = Some(false) for 0 <= i < n,
\* and get(n) = None.
C9_NewAllFalse ==
    last.op = "new" =>
        /\ Size = last.i
        /\ \A i \in 0 .. last.i - 1 : BitRange_get(root, i).result = Some(FALSE)
        /\ BitRange_get(root, last.i).result = None

\* a sequence of three or more bits was constructed
C9_Witness == last.op = "new" /\ last.i >= 3 /\ Size >= 3

\* C10: contains(v) returns true exactly when insert(v) was called earlier;
\* the tree holds the inserted keys, each once; contains, splay_to_root and
\* the insert of a key already present leave the keys unchanged.
C10_SetMembership ==
    /\ last.op = "contains" => last.res = Some(last.i \in inserted)
    /\ KeySet(set_root) = inserted
    /\ Len(KeySeq(set_root)) = Cardinality(inserted)
    /\ (\/ last.op \in {"contains", "splay_to_root"}
        \/ (last.op = "insert"
              /\ \E p \in 1 .. Len(last.before) : last.before[p] = last.i)) =>
          /\ Len(KeySeq(set_root)) = Len(last.before)
          /\ KeySet(set_root) = {last.before[p] : p \in 1 .. Len(last.before)}

\* a key already in a set of three or more keys was inserted again and now
\* has keys on both sides below it
C10_Witness ==
    /\ last.op = "insert" /\ Cardinality(inserted) >= 3
    /\ Len(last.before) = Cardinality(inserted)
    /\ set_root.k = "B" /\ set_root.left.k = "B" /\ set_root.right.k = "B"

\* every Branch of n has a value strictly between lo and hi, only smaller
\* keys in its left subtree and only greater keys in its right subtree
RECURSIVE IsBST(_, _, _)
IsBST(n, lo, hi) ==
    \/ n.k = "E"
    \/ /\ lo < n.val /\ n.val < hi
       /\ IsBST(n.left, lo, n.val)
       /\ IsBST(n.right, n.val, hi)

StrictlyIncreasing(s) == \A p \in 1 .. Len(s) - 1 : s[p] < s[p + 1]

\* C11: after every insert, contains and splay_to_root, every Branch with
\* value v has only keys below v in its left subtree and only keys above v
\* in its right subtree, so the keys in order are strictly increasing and
\* no key appears twice.
C11_BSTInvariant ==
    /\ IsBST(set_root, 0, MaxKey + 1)
    /\ StrictlyIncreasing(KeySeq(set_root))

\* a call brought its key to the root of a set of four keys, with keys on
\* both sides of it
C11_Witness ==
    /\ last.op \in {"insert", "contains", "splay_to_root"}
    /\ Len(KeySeq(set_root)) = 4
    /\ set_root.left.k = "B" /\ set_root.right.k = "B"
    /\ set_root.val = last.i

\* C12: immediately after insert(v) the root is a Branch with value v,
\* whether v was new or already present; immediately after a contains(v)
\* that returned true the root is a Branch with value v.
C12_SplayedToRoot ==
    /\ last.op = "insert" => (set_root.k = "B" /\ set_root.val = last.i)
    /\ (last.op = "contains" /\ last.res = Some(TRUE)) =>
          (set_root.k = "B" /\ set_root.val = last.i)

\* contains found a key of a set of four keys and returned true, and two
\* keys now hang in a chain below the root
C12_Witness ==
    /\ last.op = "contains" /\ last.res = Some(TRUE)
    /\ Len(last.before) = 4
    /\ set_root.k = "B" /\ set_root.left.k = "B" /\ set_root.left.left.k = "B"

\* every Branch of n stores 1 + size(left) + size(right)
RECURSIVE SizesOK(_)
SizesOK(n) ==
    \/ n.k = "E"
    \/ /\ n.size = 1 + get_size(n.left) + get_size(n.right)
       /\ SizesOK(n.left)
       /\ SizesOK(n.right)

\* the number of Branches of n
RECURSIVE Count(_)
Count(n) == IF n.k = "E" THEN 0 ELSE 1 + Count(n.left) + Count(n.right)

\* n and every node below it
RECURSIVE Subtrees(_)
Subtrees(n) ==
    IF n.k = "E" THEN {n}
    ELSE {n} \cup Subtrees(n.left) \cup Subtrees(n.right)

\* C13: in every tree reachable by new(n) and any set / get /
\* reverse_range with arbitrary arguments, every Branch at every depth
\* stores size = 1 + size(left) + size(right), the number of Branches of
\* its subtree; toggling the reversed flag of a node, and pushing it down
\* in separate, changes no size.
C13_SizeInvariant ==
    /\ SizesOK(root)
    /\ \A n \in Subtrees(root) :
          /\ get_size(n) = Count(n)
          /\ get_size(reversed(n)) = get_size(n)
          /\ SizesOK(reversed(n))
          /\ LET f == separate("bit", n) IN
             f.k = "B" =>
                /\ get_size(f.left) =
                      get_size(IF n.reversed THEN n.right ELSE n.left)
                /\ get_size(f.right) =
                      get_size(IF n.reversed THEN n.left ELSE n.right)
                /\ SizesOK(f.left) /\ SizesOK(f.right)

\* after a reverse_range the tree of four or more nodes has Branches on
\* both sides of the root, of different sizes, and a pending reversal
\* below the root
C13_Witness ==
    /\ IsReverse /\ Size >= 4
    /\ root.left.k = "B" /\ root.right.k = "B"
    /\ get_size(root.left) # get_size(root.right)
    /\ (AnyReversed(root.left) \/ AnyReversed(root.right))

\* the logical content of a tree: the keys in order, or the bits in order
\* with every pending reversal applied
Content(ty, n) == IF ty = "plain" THEN KeySeq(n) ELSE InOrder(n, FALSE)

\* the number of positions that the steps of a path put before its focus
RECURSIVE PathBefore(_, _)
PathBefore(ty, path) ==
    IF path = <<>> THEN 0
    ELSE PathBefore(ty, Front(path))
         + (IF Last(path).direction = "Right"
            THEN 1 + Len(Content(ty, Last(path).sibling))
            ELSE 0)

\* the in-order position (0-based) of the Branch in the focus of a zipper
FocusRank(ty, zipper) ==
    PathBefore(ty, zipper.path)
    + Len(Content(ty, separate(ty, zipper.here).left))

\* splay(z) has an empty path and the content of zip_tree(z); a Branch in
\* the focus of z, or else the parent of the Empty focus, is at its root
SplaysToRoot(ty, z) ==
    LET r == splay(ty, z)
        top == separate(ty, r.here)
        up == parent_zipper(ty, z)
    IN /\ r.path = <<>>
       /\ Content(ty, zip_tree(ty, r)) = Content(ty, zip_tree(ty, z))
       /\ is_branch(z.here) =>
             /\ top.k = "B"
             /\ top.val = separate(ty, z.here).val
             /\ FocusRank(ty, r) = FocusRank(ty, z)
       /\ (~is_branch(z.here) /\ z.path # <<>>) =>
             /\ top.k = "B"
             /\ top.val = Last(z.path).parent_val
             /\ FocusRank(ty, r) =
                   PathBefore(ty, Front(z.path))
                   + (IF Last(z.path).direction = "Right"
                      THEN Len(Content(ty, Last(z.path).sibling))
                      ELSE 0)

\* C14: for every zipper z that find, find_index or end produce on a
\* reachable tree, splay(z) terminates with an empty path and a tree of the
\* same in-order content as zip_tree(z); a Branch in the focus of z is the
\* root of the result, and when the focus is Empty and the path is not
\* empty the root of the result is the parent of the focus, the last
\* Branch on the search path. Every reachable tree is the tree of a state
\* between two calls, so the zippers are taken there.
C14_SplayToRoot ==
    Ready =>
        /\ \A v \in Keys : SplaysToRoot("plain", find("plain", set_root, v))
        /\ SplaysToRoot("plain", end("plain", set_root))
        /\ \A i \in Indices : SplaysToRoot("bit", find_index(root, i))
        /\ SplaysToRoot("bit", end("bit", root))

\* find_index stops at a Branch three steps below the root of a tree that
\* holds both bits and a pending reversal, and splay moves it to the root
C14_Witness ==
    \E i \in Indices :
        LET z == find_index(root, i) IN
        /\ is_branch(z.here) /\ Len(z.path) >= 3
        /\ Mixed(InOrder(root, FALSE))
        /\ AnyReversed(root)
        /\ zip_tree("bit", splay("bit", z)) # root

\* C15: for every reachable tree and every pair of integers (i, j), the
\* zipper of isolate_interval, zipped up with no flag toggled, has the
\* logical bit sequence and the length of the tree it was taken from.
C15_IsolateKeepsContent ==
    IsReverse =>
        last.isolated = <<Len(last.before), last.before>>

\* an interval strictly inside a sequence of both bits was isolated, and
\* the zipper that isolate_interval returned holds two or more nodes in its
\* focus below two or more steps
C15_Witness ==
    /\ IsReverse /\ 0 < last.i /\ last.i < last.j /\ last.j < Size
    /\ Mixed(last.before)
    /\ last.focus[1] >= 2 /\ last.focus[2] >= 2
    /\ last.isolated[2] = last.before

\* C16: reverse_range(i, i) with 0 <= i < size leaves the length and the
\* bit at every position unchanged, also when 0 < i < size - 1 and
\* isolate_interval goes through parent_zipper, rotate_zipper and
\* right_zipper.
C16_SinglePositionIdentity ==
    (IsReverse /\ 0 <= last.i /\ last.i = last.j /\ last.i < Size) =>
        /\ Size = Len(last.before)
        /\ Bits(root) = Somes(last.before)

====
